---------------------------- MODULE Spec2Model ----------------------------
(***************************************************************************)
(* A model of closed_book_processing.py (CCQA): the text normalizer        *)
(* extract_text, the per-file aggregator generate_closed_book_format and   *)
(* main, which fans the files out over a multiprocessing.Pool.             *)
(*                                                                         *)
(* A Python str is a sequence of lexemes: a lexeme is a character (" ",    *)
(* "\n", "\r", "é", "&"), a run of characters that none of the functions   *)
(* splits (a word, a tag such as "<p>", a character reference such as      *)
(* "&#10;"), so that the string "a&#10;b" is <<"a", "&#10;", "b">>.        *)
(* A Python dict is a function (a record when its keys are identifiers);   *)
(* `"k" in d.keys()` is "k" \in DOMAIN d.                                  *)
(*                                                                         *)
(* Four specifications share the definitions:                              *)
(*   SpecText      extract_text applied to every short string;             *)
(*   Spec          generate_closed_book_format reading one file;           *)
(*   SpecQuestion  the same function on a file of one question, the        *)
(*                 question drawn from a wider set;                        *)
(*   SpecMain      main and the pool's workers.                            *)
(***************************************************************************)
EXTENDS Naturals, Sequences, FiniteSets, TLC

VARIABLES
    only_english,   \* args.only_english, bound into fn_worker
    keep_markup,    \* args.keep_markup, bound into fn_worker
    \* ---- extract_text
    tpc,            \* "idle" | "call" | "return"
    input_text,     \* the argument of extract_text
    text,           \* its return value
    \* ---- generate_closed_book_format
    pc,             \* "idle" | "loop" | "questions" | "done" | "failed"
    nfile,          \* number of lines of the input file
    nlines,         \* lines consumed so far by `for website in fi`
    content,        \* what json.loads made of the last line read
    questions_of,   \* number of the line whose "Questions" the local `questions` is
    nquestions,     \* len(questions)
    qi,             \* index in `questions` of the next question
    question,       \* the loop variable `question`
    question_text,  \* the local question_text
    answer_list,    \* the local answer_list
    output,         \* the dict `output`
    outfile,        \* the file at output_path: NoFile or the dumped dict
    writes,         \* how many times output_path was opened for writing
    last,           \* history: key -> the last question recorded under it
    output_at_read, \* history: `output` when the last line was read
    english_seen,   \* history: a line read so far was tagged "en"
    \* ---- main
    mpc,            \* "idle" | "start" | "listdir" | "pool" | "map" | "returned"
                    \* | "asserted" (AssertionError) | "raised" (any later exception)
    input_folder,   \* NoDir, or the directory: filename -> lines of the file
    output_folder,  \* NoDir, or the directory: filename -> dumped dict
    data_folder,    \* NoAttr, or the listing of args.data_folder
    num_workers,    \* args.num_workers
    files,          \* the list `files`: the filenames, in dispatch order
    chunksize,      \* Pool.map's chunksize
    next_chunk,     \* index of the first task of the next chunk to hand out
    worker,         \* worker -> index of the task it runs, 0 when idle
    status,         \* task index -> "queued" | "running" | "done" | "failed" | "skipped"
    number_left     \* MapResult._number_left: chunks not yet reported

cfgVars == <<only_english, keep_markup>>
textVars == <<tpc, input_text, text>>
aggVars == <<pc, nfile, nlines, content, questions_of, nquestions, qi, question,
             question_text, answer_list, output, outfile, writes, last,
             output_at_read, english_seen>>
mainVars == <<mpc, input_folder, output_folder, data_folder, num_workers,
              files, chunksize, next_chunk, worker, status, number_left>>
vars == <<cfgVars, textVars, aggVars, mainVars>>

(***************************************************************************)
(* Bounds of the model.                                                    *)
(***************************************************************************)
MaxLen == 3         \* lexemes in an argument of extract_text (SpecText)
MaxLines == 3       \* lines in an input file (Spec)
MaxQuestions == 2   \* questions in a website record (Spec)
MaxAnswers == 3     \* answers of a question (SpecQuestion)
MaxFiles == 5       \* files in a folder (SpecMain)
MaxWorkers == 2     \* args.num_workers (SpecMain)

(***************************************************************************)
(* Python values.                                                          *)
(***************************************************************************)
\* Python's None where a str is expected: a sequence no string equals.
None == <<"None">>

EmptyDict == <<>>

(***************************************************************************)
(* extract_text.                                                           *)
(***************************************************************************)
\* input_text.replace("\n", "").replace("\r", "")
StripNewlines(s) == SelectSeq(s, LAMBDA c : c \notin {"\n", "\r"})

\* One character reference decoded by html.unescape.
DecodeRef(c) ==
    CASE c = "&#10;" -> "\n"
      [] c = "&amp;" -> "&"
      [] c = "&#233;" -> "é"
      [] OTHER -> c

RECURSIVE Unescape(_)
\* html.unescape: one pass over the string, left to right; a reference is
\* recognised wherever its characters stand, also when a previous decoding
\* put the "&" in front of "#10;".
Unescape(s) ==
    IF s = <<>> THEN <<>>
    ELSE IF Len(s) >= 2 /\ s[1] = "&" /\ s[2] = "#10;"
         THEN <<"\n">> \o Unescape(Tail(Tail(s)))
         ELSE <<DecodeRef(s[1])>> \o Unescape(Tail(s))

IsStartTag(c) == c = "<p>"
IsEndTag(c) == c = "</p>"
IsTag(c) == IsStartTag(c) \/ IsEndTag(c)

RECURSIVE SkipBlanks(_)
\* The lenient parser skips the blanks in front of the document.
SkipBlanks(s) ==
    IF s # <<>> /\ Head(s) = " " THEN SkipBlanks(Tail(s)) ELSE s

\* etree.HTML returns None when the parser builds no element: the
\* document holds no start tag and no text but blanks (a stray end tag is
\* dropped).
HasTree(s) == \E i \in 1..Len(s) : IsStartTag(s[i]) \/ (~IsTag(s[i]) /\ s[i] # " ")

RECURSIVE TextRuns(_, _)
\* The text nodes in document order: the maximal runs of text between
\* tags. cur is the run being read.
TextRuns(s, cur) ==
    IF s = <<>> THEN (IF cur = <<>> THEN <<>> ELSE <<cur>>)
    ELSE IF IsTag(Head(s))
         THEN (IF cur = <<>> THEN <<>> ELSE <<cur>>) \o TextRuns(Tail(s), <<>>)
         ELSE TextRuns(Tail(s), Append(cur, Head(s)))

\* text_root.itertext(): the parser has decoded the references of each
\* text node.
IterText(s) ==
    LET runs == TextRuns(SkipBlanks(s), <<>>)
    IN  [i \in 1..Len(runs) |-> Unescape(runs[i])]

RECURSIVE JoinSpace(_)
\* " ".join(texts)
JoinSpace(texts) ==
    IF texts = <<>> THEN <<>>
    ELSE IF Len(texts) = 1 THEN texts[1]
    ELSE texts[1] \o <<" ">> \o JoinSpace(Tail(texts))

RECURSIVE CollapseSpaces(_)
\* re.sub(" +", " ", text)
CollapseSpaces(s) ==
    IF s = <<>> THEN <<>>
    ELSE IF Len(s) >= 2 /\ s[1] = " " /\ s[2] = " " THEN CollapseSpaces(Tail(s))
    ELSE <<Head(s)>> \o CollapseSpaces(Tail(s))

\* text.encode("ascii", "xmlcharrefreplace").decode("utf-8")
AsciiEncode(s) == [i \in 1..Len(s) |-> IF s[i] = "é" THEN "&#233;" ELSE s[i]]

\* extract_text(input_text, keep_markup)
ExtractText(s, keep) ==
    LET stripped == StripNewlines(s)
    IN  IF keep THEN Unescape(stripped)
        ELSE IF ~HasTree(stripped) THEN None
        ELSE Unescape(AsciiEncode(CollapseSpaces(JoinSpace(IterText(stripped)))))


(***************************************************************************)
(* generate_closed_book_format: the body of the question loop.             *)
(***************************************************************************)
\* d[k] = v
Put(d, k, v) == [x \in DOMAIN d \cup {k} |-> IF x = k THEN v ELSE d[x]]

\* A slip: the name and the text are concatenated without the space.
QuestionTextNoSpace(q, keep) ==
    LET name == IF "name_markup" \in DOMAIN q
                THEN ExtractText(q.name_markup, keep) ELSE None
        body == IF "text_markup" \in DOMAIN q
                THEN ExtractText(q.text_markup, keep) ELSE None
    IN  (IF name # None THEN name ELSE <<>>) \o (IF body # None THEN body ELSE <<>>)

\* question_text after the two `if ... in question.keys()` blocks.
QuestionText(q, keep) ==
    LET empty == <<>>
        named ==
            IF "name_markup" \in DOMAIN q
            THEN LET extracted_text == ExtractText(q.name_markup, keep)
                 IN  IF extracted_text # None
                     THEN empty \o extracted_text \o <<" ">>
                     ELSE empty
            ELSE empty
    IN  IF "text_markup" \in DOMAIN q
        THEN LET extracted_text == ExtractText(q.text_markup, keep)
             IN  IF extracted_text # None
                 THEN named \o extracted_text
                 ELSE named
        ELSE named

\* answer_text of one answer
AnswerText(answer, keep) ==
    IF "text_markup" \in DOMAIN answer
    THEN ExtractText(answer.text_markup, keep)
    ELSE None

\* `if answer_text:`
Truthy(s) == s # None /\ s # <<>>

RECURSIVE CollectAnswers(_, _, _)
\* The loop `for answer in question["Answers"]`, acc being answer_list.
CollectAnswers(answers, acc, keep) ==
    IF answers = <<>> THEN acc
    ELSE LET answer_text == AnswerText(Head(answers), keep)
         IN  CollectAnswers(Tail(answers),
                            IF Truthy(answer_text) THEN Append(acc, answer_text) ELSE acc,
                            keep)

\* A slip: only None is dropped, an empty answer text is kept.
AnswerListKeepsEmpty(q, qtext, keep) ==
    IF Len(qtext) > 0
    THEN LET texts == [i \in 1..Len(q.Answers) |-> AnswerText(q.Answers[i], keep)]
         IN  SelectSeq(texts, LAMBDA t : t # None)
    ELSE <<>>

\* answer_list after `if len(question_text) > 0:`
AnswerList(q, qtext, keep) ==
    IF Len(qtext) > 0 THEN CollectAnswers(q.Answers, <<>>, keep) ELSE <<>>

\* A slip: the answers of a key seen before are extended, not replaced.
RecordMerging(out, qtext, answers) ==
    IF qtext # <<>> /\ answers # <<>>
    THEN Put(out, qtext, IF qtext \in DOMAIN out THEN out[qtext] \o answers ELSE answers)
    ELSE out

\* `if question_text and answer_list: output[question_text] = answer_list`
Record(out, qtext, answers) ==
    IF qtext # <<>> /\ answers # <<>> THEN Put(out, qtext, answers) ELSE out

\* One iteration of `for question in questions`
LoopBody(out, q, keep) ==
    LET qtext == QuestionText(q, keep)
    IN  Record(out, qtext, AnswerList(q, qtext, keep))

\* A slip: every record that is not English is skipped, flag or no flag.
SkipsAlways(c, english) == c.Fasttext_language # "en"

\* `if only_english and content["Fasttext_language"] != "en": continue`
Skips(c, english) == english /\ c.Fasttext_language # "en"

\* A slip: a line that is not JSON is passed over instead of raising.
LineOutcomeLenient(line, english) ==
    IF ~line.valid THEN "continue"
    ELSE IF Skips(line, english) THEN "continue"
    ELSE "questions"

\* What the loop does with a line: json.loads raises on a line that is
\* not JSON, the language test passes over a record, or the questions of
\* the record are gone through.
LineOutcome(line, english) ==
    IF ~line.valid THEN "raise"
    ELSE IF Skips(line, english) THEN "continue"
    ELSE "questions"

(***************************************************************************)
(* SpecText: extract_text on every string of at most MaxLen lexemes.       *)
(***************************************************************************)
Chars == {"Q", " ", "\n", "\r", "<p>", "</p>", "&#10;", "&amp;", "#10;", "é"}

StringsUpTo(n) == UNION {[1..k -> Chars] : k \in 0..n}

NoLine == [valid |-> TRUE, Fasttext_language |-> "unread"]
NoQuestion == [Answers |-> <<>>]
NoFile == [exists |-> FALSE]
NoDir == [isdir |-> FALSE]
NoAttr == [attr |-> FALSE]

AggIdle ==
    /\ pc = "idle" /\ nfile = 0 /\ nlines = 0 /\ content = NoLine
    /\ questions_of = 0 /\ nquestions = 0 /\ qi = 1 /\ question = NoQuestion
    /\ question_text = <<>> /\ answer_list = <<>> /\ output = EmptyDict
    /\ outfile = NoFile /\ writes = 0 /\ last = EmptyDict
    /\ output_at_read = EmptyDict /\ english_seen = FALSE

MainIdle ==
    /\ mpc = "idle" /\ input_folder = NoDir /\ output_folder = NoDir
    /\ data_folder = NoAttr /\ num_workers = 1 /\ files = <<>>
    /\ chunksize = 0 /\ next_chunk = 1 /\ worker = <<>> /\ status = <<>>
    /\ number_left = 0

TextIdle == tpc = "idle" /\ input_text = <<>> /\ text = <<>>

InitText ==
    /\ only_english = FALSE
    /\ keep_markup \in BOOLEAN
    /\ tpc = "call"
    /\ input_text \in StringsUpTo(MaxLen)
    /\ text = <<>>
    /\ AggIdle
    /\ MainIdle

\* A call of extract_text, from its entry to its return.
CallExtractText ==
    /\ tpc = "call"
    /\ text' = ExtractText(input_text, keep_markup)
    /\ tpc' = "return"
    /\ UNCHANGED <<input_text, cfgVars, aggVars, mainVars>>

NextText == CallExtractText

SpecText == InitText /\ [][NextText]_vars

\* C9: whatever the input and keep_markup, a string returned by
\* extract_text holds no newline and no carriage return.
C9_NoLineBreakInResult ==
    (tpc = "return" /\ text # None) =>
        \A i \in 1..Len(text) : text[i] \notin {"\n", "\r"}

(***************************************************************************)
(* Spec: generate_closed_book_format on one input file.  The file is read  *)
(* once, front to back, so a line (and within a record a question) is      *)
(* chosen when the loop reaches it.  Every record carries the fields the   *)
(* function subscripts ("Fasttext_language", "Questions", "Answers").      *)
(***************************************************************************)
Languages == {"en", "fr"}

\* The lines of an input file: a line that is not JSON, or a website record.
Lines ==
    {[valid |-> FALSE]} \cup {[valid |-> TRUE, Fasttext_language |-> l] : l \in Languages}

Answer(markup) == [text_markup |-> markup]

SomeAnswerLists == {<<>>, <<Answer(<<"A1">>)>>, <<Answer(<<"A2">>)>>}

\* The questions of Spec: one key under several answer lists, a second
\* key, a name that cleans to the empty string, and no markup at all.
Questions ==
    {[text_markup |-> <<"Q">>, Answers |-> a] : a \in SomeAnswerLists}
    \cup {[name_markup |-> <<"<p>", "Capital", "</p>">>,
           text_markup |-> <<"of", " ", "France?">>,
           Answers |-> <<Answer(<<"Paris">>)>>]}
    \cup {[name_markup |-> <<"<p>", "</p>">>, Answers |-> <<Answer(<<"A1">>)>>]}
    \cup {[Answers |-> <<Answer(<<"A1">>)>>]}

Init ==
    /\ only_english \in BOOLEAN
    /\ keep_markup \in BOOLEAN
    /\ pc = "loop"
    /\ nfile \in 0..MaxLines
    /\ nlines = 0 /\ content = NoLine
    /\ questions_of = 0 /\ nquestions = 0 /\ qi = 1 /\ question = NoQuestion
    /\ question_text = <<>> /\ answer_list = <<>> /\ output = EmptyDict
    /\ outfile = NoFile /\ writes = 0 /\ last = EmptyDict
    /\ output_at_read = EmptyDict /\ english_seen = FALSE
    /\ TextIdle
    /\ MainIdle

\* `for website in fi`, up to the question loop: the next line is read and
\* parsed, and the language test is made.
ReadLine ==
    /\ pc = "loop"
    /\ nlines < nfile
    /\ \E line \in Lines :
        /\ nlines' = nlines + 1
        /\ content' = line
        /\ output_at_read' = output
        /\ english_seen' = (english_seen \/ (line.valid /\ line.Fasttext_language = "en"))
        /\ CASE LineOutcome(line, only_english) = "raise" ->
                  /\ pc' = "failed"
                  /\ UNCHANGED <<questions_of, nquestions, qi>>
             [] LineOutcome(line, only_english) = "continue" ->
                  /\ pc' = "loop"
                  /\ UNCHANGED <<questions_of, nquestions, qi>>
             [] OTHER ->
                  /\ pc' = "questions"
                  /\ questions_of' = nlines + 1
                  /\ nquestions' \in 0..MaxQuestions
                  /\ qi' = 1
    /\ UNCHANGED <<nfile, question, question_text, answer_list, output, outfile,
                   writes, last>>
    /\ UNCHANGED <<cfgVars, textVars, mainVars>>

\* The history of a key: the question recorded last, and those before it.
Remember(hist, k, q) ==
    Put(hist, k, [question |-> q,
                  earlier |-> IF k \in DOMAIN hist
                              THEN hist[k].earlier \cup {hist[k].question}
                              ELSE {}])

\* `for question in questions` has a next question.
InQuestions == pc = "questions" /\ qi <= nquestions

\* One iteration of `for question in questions` on question q.
Iterate(q) ==
    /\ question' = q
    /\ question_text' = QuestionText(q, keep_markup)
    /\ answer_list' = AnswerList(q, question_text', keep_markup)
    /\ output' = LoopBody(output, q, keep_markup)
    /\ last' = IF question_text' # <<>> /\ answer_list' # <<>>
               THEN Remember(last, question_text', q)
               ELSE last
    /\ qi' = qi + 1
    /\ UNCHANGED <<pc, nfile, nlines, content, questions_of, nquestions, outfile,
                   writes, output_at_read, english_seen>>
    /\ UNCHANGED <<cfgVars, textVars, mainVars>>

ProcessQuestion == InQuestions /\ \E q \in Questions : Iterate(q)

\* `for question in questions` is exhausted: back to the line loop.
EndQuestions ==
    /\ pc = "questions"
    /\ qi > nquestions
    /\ pc' = "loop"
    /\ UNCHANGED <<nfile, nlines, content, questions_of, nquestions, qi, question,
                   question_text, answer_list, output, outfile, writes, last,
                   output_at_read, english_seen>>
    /\ UNCHANGED <<cfgVars, textVars, mainVars>>

\* `for website in fi` is exhausted: `with open(output_path, "w")` and
\* json.dump(output, fo).
WriteOutput ==
    /\ pc = "loop"
    /\ nlines = nfile
    /\ outfile' = [exists |-> TRUE, dict |-> output]
    /\ writes' = writes + 1
    /\ pc' = "done"
    /\ UNCHANGED <<nfile, nlines, content, questions_of, nquestions, qi, question,
                   question_text, answer_list, output, last, output_at_read,
                   english_seen>>
    /\ UNCHANGED <<cfgVars, textVars, mainVars>>

Next == ReadLine \/ ProcessQuestion \/ EndQuestions \/ WriteOutput

Spec == Init /\ [][Next]_vars

\* C1: of the questions that produce one question text and have a
\* surviving answer, the mapping holds the answer list of the last one in
\* file order, and nothing of the earlier ones.
C1_LastWriteWins ==
    \A k \in DOMAIN last :
        /\ k \in DOMAIN output
        /\ output[k] = AnswerList(last[k].question, k, keep_markup)

\* Two questions of different website records gave the same key with
\* different answer lists.
C1_Witness ==
    /\ nlines >= 2
    /\ questions_of = nlines
    /\ \E k \in DOMAIN last :
        /\ last[k].question = question
        /\ \E e \in last[k].earlier :
            AnswerList(e, k, keep_markup) # AnswerList(question, k, keep_markup)

\* C4: with only_english a record not tagged "en" leaves the mapping as it
\* was and none of its questions is gone through; a file of such records
\* alone gives the empty mapping; without only_english every record is
\* gone through.
C4_NonEnglishSkipped ==
    /\ (nlines > 0 /\ content.valid) =>
          IF only_english /\ content.Fasttext_language # "en"
          THEN output = output_at_read /\ questions_of # nlines /\ pc \in {"loop", "done"}
          ELSE questions_of = nlines /\ (pc = "questions" \/ qi > nquestions)
    /\ (only_english /\ ~english_seen) =>
          /\ output = EmptyDict
          /\ (pc = "done" => outfile = [exists |-> TRUE, dict |-> EmptyDict])

\* A non-English record was passed over after an English one had filled
\* the mapping.
C4_Witness ==
    /\ only_english
    /\ nlines >= 2
    /\ content.valid /\ content.Fasttext_language = "fr"
    /\ output # EmptyDict
    /\ pc = "done"

\* C7: a line that is not JSON ends the task in failure with no output
\* file; the output file is written once, after the last line.
C7_MalformedLineNoOutput ==
    /\ (nlines > 0 /\ ~content.valid) => pc = "failed"
    /\ pc = "failed" => (outfile = NoFile /\ writes = 0)
    /\ outfile # NoFile =>
          (pc = "done" /\ nlines = nfile /\ writes = 1 /\ outfile.dict = output)

\* A malformed line came after a valid line that had filled the mapping,
\* and before the end of the file.
C7_Witness ==
    /\ pc = "failed"
    /\ nlines >= 2 /\ nlines < nfile
    /\ output # EmptyDict
    /\ outfile = NoFile

(***************************************************************************)
(* SpecQuestion: generate_closed_book_format on a file of one record with  *)
(* one question, from the point where the record has been read.  The       *)
(* question is any combination of the markups below, with at most          *)
(* MaxAnswers answers.                                                     *)
(***************************************************************************)
\* Markup that cleans to nothing, to the empty string, to one word and to
\* several words.
Markups ==
    {<<>>, <<"<p>", "</p>">>, <<"<p>", "Capital", "</p>">>, <<"of", " ", "France?">>}

AnswerMarkups == {<<>>, <<"<p>", "</p>">>, <<"Paris">>, <<"Lyon">>}

\* An answer with no text_markup field.
BareAnswer == [upvote_count |-> 0]

Answers == {BareAnswer} \cup {Answer(m) : m \in AnswerMarkups}

AnswerLists == UNION {[1..n -> Answers] : n \in 0..MaxAnswers}

AnyQuestions ==
    {[Answers |-> a] : a \in AnswerLists}
    \cup {[name_markup |-> n, Answers |-> a] : n \in Markups, a \in AnswerLists}
    \cup {[text_markup |-> t, Answers |-> a] : t \in Markups, a \in AnswerLists}
    \cup {[name_markup |-> n, text_markup |-> t, Answers |-> a] :
             n \in Markups, t \in Markups, a \in AnswerLists}

InitQuestion ==
    /\ only_english = TRUE
    /\ keep_markup \in BOOLEAN
    /\ pc = "questions"
    /\ nfile = 1 /\ nlines = 1
    /\ content = [valid |-> TRUE, Fasttext_language |-> "en"]
    /\ questions_of = 1 /\ nquestions = 1 /\ qi = 1 /\ question = NoQuestion
    /\ question_text = <<>> /\ answer_list = <<>> /\ output = EmptyDict
    /\ outfile = NoFile /\ writes = 0 /\ last = EmptyDict
    /\ output_at_read = EmptyDict /\ english_seen = TRUE
    /\ TextIdle
    /\ MainIdle

ProcessAnyQuestion == InQuestions /\ \E q \in AnyQuestions : Iterate(q)

NextQuestion == ProcessAnyQuestion \/ EndQuestions \/ WriteOutput

SpecQuestion == InitQuestion /\ [][NextQuestion]_vars

\* The question loop has gone through `question`.
Processed == qi > 1

\* A markup field of the question is absent, or cleans to NoText or to "".
Unusable(q, field) ==
    field \notin DOMAIN q \/ ExtractText(q[field], keep_markup) \in {None, <<>>}

\* C2: a question whose name_markup and text_markup are each absent or
\* clean to NoText or to the empty string records no key, whatever its
\* answers.
C2_NoKeyWithoutQuestionText ==
    (Processed /\ Unusable(question, "name_markup") /\ Unusable(question, "text_markup"))
        => output = EmptyDict

\* The texts of the answers that have a text_markup field cleaning to a
\* non-empty string, in the order of the answers.
SurvivingTexts(q) ==
    LET kept == SelectSeq(q.Answers,
                    LAMBDA a : "text_markup" \in DOMAIN a
                               /\ ExtractText(a.text_markup, keep_markup) \notin {None, <<>>})
    IN  [i \in 1..Len(kept) |-> ExtractText(kept[i].text_markup, keep_markup)]

\* C3: every key maps to a non-empty list of non-empty strings, the
\* surviving answer texts of the recorded question in their order; a
\* question with a text and no surviving answer is no key.
C3_AnswersSurviveInOrder ==
    /\ \A k \in DOMAIN output :
          /\ output[k] # <<>>
          /\ \A i \in 1..Len(output[k]) : output[k][i] \notin {None, <<>>}
          /\ Processed /\ k = question_text
          /\ output[k] = SurvivingTexts(question)
    /\ (Processed /\ question_text # <<>> /\ SurvivingTexts(question) = <<>>)
          => output = EmptyDict

\* A question was recorded with two answers kept and one dropped between
\* or around them.
C3_Witness ==
    /\ Processed
    /\ question_text \in DOMAIN output
    /\ Len(output[question_text]) >= 2
    /\ output[question_text][1] # output[question_text][2]
    /\ Len(question.Answers) > Len(output[question_text])

\* The name segment and the text segment of the key.
NameSegment(q) ==
    IF "name_markup" \in DOMAIN q /\ ExtractText(q.name_markup, keep_markup) # None
    THEN ExtractText(q.name_markup, keep_markup) \o <<" ">>
    ELSE <<>>

TextSegment(q) ==
    IF "text_markup" \in DOMAIN q /\ ExtractText(q.text_markup, keep_markup) # None
    THEN ExtractText(q.text_markup, keep_markup)
    ELSE <<>>

\* C5: the key is the cleaned name and one space (when the name is present
\* and not NoText) followed by the cleaned text (when present and not
\* NoText); name "Capital" and text "of France?" give "Capital of France?".
C5_KeyIsNameSpaceText ==
    Processed =>
        /\ question_text = NameSegment(question) \o TextSegment(question)
        /\ DOMAIN output \subseteq {question_text}
        /\ ("name_markup" \in DOMAIN question /\ "text_markup" \in DOMAIN question
            /\ ExtractText(question.name_markup, keep_markup) = <<"Capital">>
            /\ ExtractText(question.text_markup, keep_markup) = <<"of", " ", "France?">>)
           => question_text = <<"Capital", " ", "of", " ", "France?">>

\* The question of the end-to-end scenario was recorded.
C5_Witness ==
    /\ Processed
    /\ ~keep_markup
    /\ "name_markup" \in DOMAIN question /\ "text_markup" \in DOMAIN question
    /\ question.name_markup = <<"<p>", "Capital", "</p>">>
    /\ question.text_markup = <<"of", " ", "France?">>
    /\ output = [k \in {<<"Capital", " ", "of", " ", "France?">>} |-> <<<<"Paris">>>>]

(***************************************************************************)
(* generate_closed_book_format as one call, for the workers of the pool.   *)
(***************************************************************************)
RECURSIVE ProcessQuestions(_, _, _)
\* `for question in questions`
ProcessQuestions(out, questions, keep) ==
    IF questions = <<>> THEN out
    ELSE ProcessQuestions(LoopBody(out, Head(questions), keep), Tail(questions), keep)

RECURSIVE ReadLines(_, _, _, _)
\* `for website in fi`: the dict when the file is exhausted, or the
\* exception that json.loads raised.
ReadLines(lines, out, english, keep) ==
    IF lines = <<>> THEN [raised |-> FALSE, output |-> out]
    ELSE CASE LineOutcome(Head(lines), english) = "raise" ->
                [raised |-> TRUE, output |-> out]
           [] LineOutcome(Head(lines), english) = "continue" ->
                ReadLines(Tail(lines), out, english, keep)
           [] OTHER ->
                ReadLines(Tail(lines),
                          ProcessQuestions(out, Head(lines).Questions, keep),
                          english, keep)

\* generate_closed_book_format((input_path, output_path)) in a folder
\* dir: open(input_path) raises when there is no such file; otherwise the
\* lines are read and, if none raises, the dict is dumped to output_path.
RunTask(dir, name, english, keep) ==
    IF name \notin DOMAIN dir.files THEN [raised |-> TRUE]
    ELSE LET r == ReadLines(dir.files[name], EmptyDict, english, keep)
         IN  IF r.raised THEN [raised |-> TRUE]
             ELSE [raised |-> FALSE, written |-> [exists |-> TRUE, dict |-> r.output]]

(***************************************************************************)
(* SpecMain: main.  Pool.map cuts the task list into chunks of chunksize   *)
(* tasks; a worker takes a chunk and maps the function over it, so an      *)
(* exception ends the chunk; map returns (or raises the first exception)   *)
(* once every chunk has reported.                                          *)
(***************************************************************************)
Record1(lang, qtext, atext) ==
    [valid |-> TRUE, Fasttext_language |-> lang,
     Questions |-> <<[text_markup |-> qtext, Answers |-> <<Answer(atext)>>]>>]

\* A file of two records, and the same file with a line that is not JSON
\* between them.
GoodFile == <<Record1("en", <<"Q">>, <<"A1">>), Record1("fr", <<"R">>, <<"A2">>)>>
BadFile == <<Record1("en", <<"Q">>, <<"A1">>), [valid |-> FALSE],
             Record1("fr", <<"R">>, <<"A2">>)>>

Folder(fs) == [isdir |-> TRUE, files |-> fs]

Folders == UNION {{Folder(fs) : fs \in [1..n -> {GoodFile, BadFile}]} : n \in 0..MaxFiles}

\* The folders hold at most MaxFiles files, named 1, 2, ...; the files
\* hold no markup, so keep_markup makes no difference and is left unset.
InitMain ==
    /\ only_english \in BOOLEAN
    /\ keep_markup = FALSE
    /\ mpc = "start"
    /\ input_folder \in {NoDir} \cup Folders
    /\ output_folder \in {NoDir, Folder(EmptyDict)}
    /\ data_folder \in {NoAttr} \cup {[attr |-> TRUE, listing |-> 1..m] : m \in 0..MaxFiles}
    /\ num_workers \in 1..MaxWorkers
    /\ files = <<>> /\ chunksize = 0 /\ next_chunk = 1
    /\ worker = <<>> /\ status = <<>> /\ number_left = 0
    /\ TextIdle
    /\ AggIdle

\* The two asserts and os.makedirs(args.output_folder, exist_ok=False).
CheckFolders ==
    /\ mpc = "start"
    /\ IF input_folder = NoDir \/ output_folder # NoDir
       THEN mpc' = "asserted" /\ UNCHANGED output_folder
       ELSE mpc' = "listdir" /\ output_folder' = Folder(EmptyDict)
    /\ UNCHANGED <<input_folder, data_folder, num_workers, files, chunksize,
                   next_chunk, worker, status, number_left>>
    /\ UNCHANGED <<cfgVars, textVars, aggVars>>

\* `for filename in os.listdir(args.data_folder)`: the parser defines no
\* data_folder, so a Namespace made by it raises AttributeError here.
ListFiles ==
    /\ mpc = "listdir"
    /\ IF data_folder = NoAttr
       THEN mpc' = "raised" /\ UNCHANGED files
       ELSE /\ mpc' = "pool"
            /\ files' = [i \in 1..Cardinality(data_folder.listing) |-> i]
    /\ UNCHANGED <<input_folder, output_folder, data_folder, num_workers, chunksize,
                   next_chunk, worker, status, number_left>>
    /\ UNCHANGED <<cfgVars, textVars, aggVars>>

\* Pool._map_async: divmod(len(iterable), len(self._pool) * 4), rounded up.
ChunkSize(n, processes) ==
    IF n = 0 THEN 0
    ELSE (n \div (processes * 4)) + (IF n % (processes * 4) = 0 THEN 0 ELSE 1)

\* MapResult.__init__: _number_left
NumberOfChunks(n, size) ==
    IF size <= 0 THEN 0 ELSE (n \div size) + (IF n % size = 0 THEN 0 ELSE 1)

\* Pool(args.num_workers) and the dispatch of pool.map(fn_worker, files).
StartMap ==
    /\ mpc = "pool"
    /\ mpc' = "map"
    /\ chunksize' = ChunkSize(Len(files), num_workers)
    /\ number_left' = NumberOfChunks(Len(files), chunksize')
    /\ next_chunk' = 1
    /\ worker' = [w \in 1..num_workers |-> 0]
    /\ status' = [t \in 1..Len(files) |-> "queued"]
    /\ UNCHANGED <<input_folder, output_folder, data_folder, num_workers, files>>
    /\ UNCHANGED <<cfgVars, textVars, aggVars>>

\* The last task of the chunk that task t is in.
ChunkEnd(t) ==
    LET first == ((t - 1) \div chunksize) * chunksize + 1
        end == first + chunksize - 1
    IN  IF end > Len(files) THEN Len(files) ELSE end

\* An idle worker takes the next chunk off the task queue and starts on
\* its first task.
WorkerTakesChunk(w) ==
    /\ mpc = "map"
    /\ worker[w] = 0
    /\ next_chunk <= Len(files)
    /\ worker' = [worker EXCEPT ![w] = next_chunk]
    /\ status' = [status EXCEPT ![next_chunk] = "running"]
    /\ next_chunk' = next_chunk + chunksize
    /\ UNCHANGED <<mpc, input_folder, output_folder, data_folder, num_workers, files,
                   chunksize, number_left>>
    /\ UNCHANGED <<cfgVars, textVars, aggVars>>

\* mapstar in a worker: list(map(fn_worker, chunk)).  The task at hand
\* runs to its end; an exception ends the chunk, the tasks after it in
\* the chunk are never called.
WorkerRunsTask(w) ==
    /\ mpc = "map"
    /\ worker[w] # 0
    /\ LET t == worker[w]
           r == RunTask(input_folder, files[t], only_english, keep_markup)
       IN  IF r.raised
           THEN /\ status' = [u \in DOMAIN status |->
                                 IF u = t THEN "failed"
                                 ELSE IF u > t /\ u <= ChunkEnd(t) THEN "skipped"
                                 ELSE status[u]]
                /\ worker' = [worker EXCEPT ![w] = 0]
                /\ number_left' = number_left - 1
                /\ UNCHANGED output_folder
           ELSE /\ output_folder' = Folder(Put(output_folder.files, files[t], r.written))
                /\ IF t = ChunkEnd(t)
                   THEN /\ status' = [status EXCEPT ![t] = "done"]
                        /\ worker' = [worker EXCEPT ![w] = 0]
                        /\ number_left' = number_left - 1
                   ELSE /\ status' = [status EXCEPT ![t] = "done", ![t + 1] = "running"]
                        /\ worker' = [worker EXCEPT ![w] = t + 1]
                        /\ UNCHANGED number_left
    /\ UNCHANGED <<mpc, input_folder, data_folder, num_workers, files, chunksize,
                   next_chunk>>
    /\ UNCHANGED <<cfgVars, textVars, aggVars>>

\* MapResult._set has seen the last chunk: map returns the results, or
\* raises the first exception, and main ends.
MapReturns ==
    /\ mpc = "map"
    /\ number_left = 0
    /\ mpc' = IF \E t \in DOMAIN status : status[t] = "failed" THEN "raised" ELSE "returned"
    /\ UNCHANGED <<input_folder, output_folder, data_folder, num_workers, files,
                   chunksize, next_chunk, worker, status, number_left>>
    /\ UNCHANGED <<cfgVars, textVars, aggVars>>

NextMain ==
    \/ CheckFolders
    \/ ListFiles
    \/ StartMap
    \/ \E w \in DOMAIN worker : WorkerTakesChunk(w)
    \/ \E w \in DOMAIN worker : WorkerRunsTask(w)
    \/ MapReturns

SpecMain == InitMain /\ [][NextMain]_vars

\* main is over, its two asserts having passed.
MainEnded == mpc \in {"returned", "raised"}

\* C6: after a run of main whose checks pass, the output folder holds one
\* file for every filename of the input folder and no other file.
C6_OneOutputPerInput ==
    MainEnded => DOMAIN output_folder.files = DOMAIN input_folder.files

\* Task t alone, in a fresh output folder.
Alone(t) == RunTask(input_folder, files[t], only_english, keep_markup)

\* The folder whose filenames are listed holds the filenames of the input
\* folder: every dispatched input path is a file.
ListedIsInput ==
    /\ data_folder # NoAttr
    /\ input_folder # NoDir
    /\ data_folder.listing = DOMAIN input_folder.files

\* C8: when a task fails, every other dispatched task is still run to its
\* end and leaves the output file it leaves when run alone (stated for the
\* runs whose input paths all exist, so that a task fails on a malformed
\* line only).
C8_FailuresAreIsolated ==
    (MainEnded /\ ListedIsInput) =>
        \A t \in DOMAIN status :
            ~Alone(t).raised =>
                /\ status[t] = "done"
                /\ files[t] \in DOMAIN output_folder.files
                /\ output_folder.files[files[t]] = Alone(t).written

\* C10: main does not end before every dispatched task has finished, in
\* success or in failure; no task is run by two workers, and at most
\* num_workers tasks run at a time (stated for the runs whose input paths
\* all exist).
C10_MainWaitsForAllTasks ==
    /\ (MainEnded /\ ListedIsInput) =>
          \A t \in DOMAIN status : status[t] \in {"done", "failed"}
    /\ \A w1, w2 \in DOMAIN worker : (w1 # w2 /\ worker[w1] # 0) => worker[w1] # worker[w2]
    /\ Cardinality({t \in DOMAIN status : status[t] = "running"}) <= num_workers

=============================================================================
